---- MODULE Spec2Model ----
(***************************************************************************)
(* QuickList (app.py): a task table in SQLite, the store functions over    *)
(* it, the add-task form, the CSV import/export and the filter / sort /    *)
(* stats / grouping pass that builds the page.                             *)
(*                                                                         *)
(* Text (str) is a sequence of one-character strings.  SQL NULL / Python   *)
(* None is the distinguished value NULL, which no text can equal.          *)
(* created_at (an ISO-8601 UTC timestamp, compared as a string) is the     *)
(* reading of a clock, a natural number: the order is the same.            *)
(***************************************************************************)
EXTENDS Integers, Sequences, FiniteSets

VARIABLES
  tasks,      \* the rows of table tasks (a set of records, id is PRIMARY KEY)
  clock,      \* the last reading of datetime.utcnow()
  issued,     \* the ids add_task has returned so far
  last,       \* the call that was made last, its arguments and its outcome
  df_export,  \* df_export: the rows list_tasks() gave the last export
  csv,        \* to_csv: the exported file, a header row and the data rows
  widgets,    \* the values of the search, tag, sort and view widgets
  view        \* what the page shows: the list, the stats, the cards

vars == <<tasks, clock, issued, last, df_export, csv, widgets, view>>

----------------------------------------------------------------------------
(* Bounds of the model *)

NumIds == 3        \* how many values str(uuid4())[:8] can take
MaxTasks == 3      \* creations are stopped when the table holds this many rows
MaxClock == 1      \* the clock stops advancing here (later rows tie)

----------------------------------------------------------------------------
(* Text *)

NULL == <<"NULL">>

IsSpace(c) == c \in {" ", "\t", "\n"}

RECURSIVE LStrip(_)
LStrip(s) == IF s # <<>> /\ IsSpace(Head(s)) THEN LStrip(Tail(s)) ELSE s

RECURSIVE RStrip(_)
RStrip(s) ==
  IF s # <<>> /\ IsSpace(s[Len(s)]) THEN RStrip(SubSeq(s, 1, Len(s) - 1)) ELSE s

\* str.strip()
Strip(s) == RStrip(LStrip(s))

LowerChar(c) ==
  CASE c = "A" -> "a" [] c = "B" -> "b" [] c = "I" -> "i" [] c = "K" -> "k"
    [] c = "L" -> "l" [] c = "M" -> "m" [] c = "N" -> "n" [] c = "X" -> "x"
    [] OTHER -> c

\* str.lower()
Lower(s) == [i \in 1..Len(s) |-> LowerChar(s[i])]

\* a in b, for strings
Contains(a, b) ==
  \E i \in 0..(Len(b) - Len(a)) : SubSeq(b, i + 1, i + Len(a)) = a

\* Python truth of a str-or-None value: None and "" are false
Truthy(x) == x # NULL /\ x # <<>>

\* (x or "")
OrEmpty(x) == IF Truthy(x) THEN x ELSE <<>>

\* the float nan pandas puts where a cell is missing
NaN == <<"NaN">>

\* str(x) of a str, None or nan
Str(x) ==
  IF x = NULL THEN <<"N", "o", "n", "e">>
  ELSE IF x = NaN THEN <<"n", "a", "n">>
  ELSE x

----------------------------------------------------------------------------
(* Values the model draws its inputs from *)

IdChars == <<"a", "b", "c", "d", "e", "f">>

\* the values of str(uuid4())[:8]
Ids == {<<IdChars[i]>> : i \in 1..NumIds}

P_normal == <<"n", "o", "r", "m", "a", "l">>
P_high == <<"h", "i", "g", "h">>
P_low == <<"l", "o", "w">>


T_milk == <<"M", "i", "l", "k">>
T_blank == <<" ">>
T_b == <<"b">>
G_x == <<"x">>
D_jan1 == <<"2", "0", "2", "5", "-", "0", "1", "-", "0", "1">>

NoErr == "none"

----------------------------------------------------------------------------
(* The store: lines 38-74 *)

StoredIds(T) == {t.id : t \in T}

\* INSERT INTO tasks ... : the row add_task builds
NewRow(tid, title, tag, due, priority, now, parent_id) ==
  [id |-> tid, title |-> title, tag |-> tag, due |-> due, priority |-> priority,
   done |-> 0, created_at |-> now, parent_id |-> parent_id]


\* the table after add_task's INSERT of id tid; the PRIMARY KEY rejects a
\* second row with a stored id (sqlite3.IntegrityError, nothing is inserted)
InsertRow(T, row) == IF row.id \in StoredIds(T) THEN T ELSE T \cup {row}

InsertErr(T, row) == IF row.id \in StoredIds(T) THEN "IntegrityError" ELSE NoErr

\* UPDATE tasks SET k=? ... on one row: the keys of fields are overwritten
SetFields(t, fields) ==
  [t EXCEPT !.title = IF "title" \in fields.keys THEN fields.title ELSE @,
            !.priority = IF "priority" \in fields.keys THEN fields.priority ELSE @,
            !.done = IF "done" \in fields.keys THEN fields.done ELSE @]

\* update_task: with no field the statement is "UPDATE tasks SET  WHERE id = ?",
\* which SQLite rejects (sqlite3.OperationalError); otherwise the rows WHERE id = tid
UpdateRows(T, tid, fields) ==
  IF fields.keys = {} THEN T
  ELSE {IF t.id = tid THEN SetFields(t, fields) ELSE t : t \in T}

UpdateErr(fields) == IF fields.keys = {} THEN "OperationalError" ELSE NoErr

\* DELETE FROM tasks WHERE id = ?
DeleteById(T, tid) == {t \in T : t.id # tid}

DeleteByParentNe(T, tid) == {t \in T : ~(t.parent_id # NULL /\ t.parent_id # tid)}

\* DELETE FROM tasks WHERE parent_id = ?   (NULL = ? is never true)
DeleteByParent(T, tid) == {t \in T : ~(t.parent_id # NULL /\ t.parent_id = tid)}

DeleteRowsNoCascade(T, tid) == DeleteById(T, tid)

\* delete_task: the two statements in order
DeleteRows(T, tid) == DeleteByParent(DeleteById(T, tid), tid)

ClearRowsCascade(T) ==
  {t \in T : t.done # 1 /\ ~(\E p \in T : p.done = 1 /\ p.id = t.parent_id)}

\* clear_completed: DELETE FROM tasks WHERE done = 1
ClearRows(T) == {t \in T : t.done # 1}

NoFields == [keys |-> {}, title |-> <<>>, priority |-> <<>>, done |-> 0]

Call(op) ==
  [op |-> op, tid |-> NULL, title |-> <<>>, parent_id |-> NULL,
   fields |-> NoFields, err |-> NoErr, ret |-> NULL, removed |-> {}]

\* time passes between two calls: datetime.utcnow() reads a later value
Tick ==
  /\ clock < MaxClock
  /\ clock' = clock + 1
  /\ UNCHANGED <<tasks, issued, last, df_export, csv, widgets, view>>

\* add_task(title, tag, due, priority, parent_id), called directly
AddTask(title, tag, due, priority, parent_id) ==
  /\ Cardinality(tasks) < MaxTasks
  /\ \E tid \in Ids :
       LET row == NewRow(tid, title, tag, due, priority, clock, parent_id) IN
       /\ tasks' = InsertRow(tasks, row)
       /\ issued' = IF InsertErr(tasks, row) = NoErr THEN issued \cup {tid} ELSE issued
       /\ last' = [Call("add_task") EXCEPT !.tid = tid, !.title = title,
                     !.parent_id = parent_id, !.err = InsertErr(tasks, row),
                     !.ret = IF InsertErr(tasks, row) = NoErr THEN tid ELSE NULL]
  /\ UNCHANGED <<clock, df_export, csv, widgets, view>>

\* update_task(tid, **fields)
UpdateTask(tid, fields) ==
  /\ tasks' = UpdateRows(tasks, tid, fields)
  /\ last' = [Call("update_task") EXCEPT !.tid = tid, !.fields = fields,
                !.err = UpdateErr(fields)]
  /\ UNCHANGED <<clock, issued, df_export, csv, widgets, view>>

\* delete_task(tid)
DeleteTask(tid) ==
  /\ tasks' = DeleteRows(tasks, tid)
  /\ last' = [Call("delete_task") EXCEPT !.tid = tid,
                !.removed = StoredIds(tasks) \ StoredIds(DeleteRows(tasks, tid))]
  /\ UNCHANGED <<clock, issued, df_export, csv, widgets, view>>

\* clear_completed()
ClearCompleted ==
  /\ tasks' = ClearRows(tasks)
  /\ last' = [Call("clear_completed") EXCEPT
                !.removed = StoredIds(tasks) \ StoredIds(ClearRows(tasks))]
  /\ UNCHANGED <<clock, issued, df_export, csv, widgets, view>>

\* "if submitted and title.strip()": the form's test of the title (a click is a submit)
FormAcceptsUnstripped(title) == title # <<>>

FormAccepts(title) == Strip(title) # <<>>

\* the "Add task" form, lines 118-123: add_task runs only when title.strip()
\* is non-empty, with the stripped title and tag; parent is "None" or a listed row
FormAddTask(title, tag, due_iso, priority, parent) ==
  IF FormAccepts(title)
  THEN /\ parent \in StoredIds(tasks) \cup {NULL}
       /\ Cardinality(tasks) < MaxTasks
       /\ \E tid \in Ids :
            LET row == NewRow(tid, Strip(title), Strip(tag), due_iso, priority, clock, parent) IN
            /\ tasks' = InsertRow(tasks, row)
            /\ issued' = IF InsertErr(tasks, row) = NoErr THEN issued \cup {tid} ELSE issued
            /\ last' = [Call("form_add") EXCEPT !.tid = tid, !.title = title,
                          !.parent_id = parent, !.err = InsertErr(tasks, row),
                          !.ret = IF InsertErr(tasks, row) = NoErr THEN tid ELSE NULL]
       /\ UNCHANGED <<clock, df_export, csv, widgets, view>>
  ELSE /\ last' = [Call("form_add") EXCEPT !.title = title]
       /\ UNCHANGED <<tasks, clock, issued, df_export, csv, widgets, view>>

ParentArgs == Ids \cup {NULL}

Done(v) == [NoFields EXCEPT !.keys = {"done"}, !.done = v]

NoView == [shown |-> FALSE]

\* the widgets as the page first shows them: lines 154-158
DefaultWidgets ==
  [q |-> <<>>, tag_filter |-> <<"A", "l", "l">>, sort_choice |-> "created",
   view_choice |-> "all"]

Init ==
  /\ tasks = {}
  /\ clock = 0
  /\ issued = {}
  /\ last = Call("init_db")
  /\ df_export = <<>>
  /\ csv = <<>>
  /\ widgets = DefaultWidgets
  /\ view = NoView

----------------------------------------------------------------------------
(* Spec: the store under add_task, update_task(done=...), delete_task and  *)
(* clear_completed, with rows that differ in id, parent_id, done and       *)
(* created_at.                                                             *)

Next ==
  \/ \E parent_id \in ParentArgs : AddTask(T_milk, G_x, D_jan1, P_normal, parent_id)
  \/ \E tid \in Ids, v \in {0, 1} : UpdateTask(tid, Done(v))
  \/ \E tid \in Ids : DeleteTask(tid)
  \/ ClearCompleted

Spec == Init /\ [][Next]_vars

\* C1: after delete(P) the store holds neither the task with id P nor any task
\* whose parent_id is P, and every other task (a grandchild too) is still stored
\* with all its fields unchanged.
C1_DeleteCascadesOneLevel ==
  [][last'.op = "delete_task" =>
       /\ \A t \in tasks' : t.id # last'.tid /\ t.parent_id # last'.tid
       /\ \A t \in tasks : (t.id # last'.tid /\ t.parent_id # last'.tid) => t \in tasks'
       /\ tasks' \subseteq tasks]_vars

\* a delete removed a parent and its child and left the child's own child behind
C1_Witness ==
  /\ last.op = "delete_task"
  /\ last.tid \in last.removed
  /\ \E t \in tasks : t.parent_id \in last.removed \ {last.tid}

\* C2 as stated: delete(x) with x the id of no stored task raises nothing and
\* leaves the store as it was.
C2_DeleteUnknownIdIsNoOp ==
  [][(last'.op = "delete_task" /\ last'.tid \notin StoredIds(tasks)) =>
       (tasks' = tasks /\ last'.err = NoErr)]_vars

\* C2 amended: delete(x) with x the id of no stored task raises nothing and removes
\* exactly the tasks whose parent_id is x; the store is unchanged when there is none.
C2_DeleteUnknownIdRemovesOnlyItsChildren ==
  [][(last'.op = "delete_task" /\ last'.tid \notin StoredIds(tasks)) =>
       /\ last'.err = NoErr
       /\ tasks' = {t \in tasks : t.parent_id # last'.tid}
       /\ (\A t \in tasks : t.parent_id # last'.tid) => tasks' = tasks]_vars

\* a delete of an id that is not stored, on a store that holds tasks, removed nothing
C2_Witness ==
  /\ last.op = "delete_task"
  /\ last.tid \notin issued
  /\ last.removed = {}
  /\ tasks # {}

\* C3: after clearCompleted() no stored task is done, and every task that was not
\* done is still stored with all its fields unchanged, also one whose parent was
\* done and is gone.
C3_ClearCompletedKeepsNotDone ==
  [][last'.op = "clear_completed" =>
       /\ \A t \in tasks' : t.done = 0
       /\ \A t \in tasks : t.done = 0 => t \in tasks'
       /\ tasks' \subseteq tasks]_vars

\* a clear removed a done parent and left its not-done subtask stored
C3_Witness ==
  /\ last.op = "clear_completed"
  /\ \E t \in tasks : t.parent_id \in last.removed /\ t.done = 0

\* C6: no two stored tasks share an id, and an id add_task returns is the id of
\* no task created earlier, deleted or not.
C6_IdsUniqueNeverReused ==
  [][/\ \A t, u \in tasks' : t.id = u.id => t = u
     /\ (last'.op = "add_task" /\ last'.ret # NULL /\ last' # last)
          => last'.ret \notin issued]_vars

----------------------------------------------------------------------------
(* SpecEdit: the store under add_task and the "Add task" form with blank   *)
(* and padded titles, and update_task with zero, one and two fields.       *)

T_pad == <<" ", "b">>
G_pad == <<"x", " ">>

EditTitles == {T_milk, T_blank, T_pad}

TitlePriority == [NoFields EXCEPT !.keys = {"title", "priority"}, !.title = T_b,
                                  !.priority = P_high]

UpdateArgs == {NoFields, Done(1), TitlePriority}

NextEdit ==
  \/ \E title \in EditTitles : AddTask(title, G_x, D_jan1, P_normal, NULL)
  \/ \E title \in EditTitles : FormAddTask(title, G_pad, D_jan1, P_normal, NULL)
  \/ \E tid \in Ids, fields \in UpdateArgs : UpdateTask(tid, fields)

SpecEdit == Init /\ [][NextEdit]_vars

C5_UpdateChangesOnlyGivenFields ==
  [][last'.op = "update_task" =>
       /\ StoredIds(tasks') = StoredIds(tasks)
       /\ \A t \in tasks : t.id # last'.tid => t \in tasks'
       /\ \A t \in tasks : \A u \in tasks' : (t.id = last'.tid /\ u.id = t.id) =>
            /\ u.title = IF "title" \in last'.fields.keys THEN last'.fields.title ELSE t.title
            /\ u.priority = IF "priority" \in last'.fields.keys
                            THEN last'.fields.priority ELSE t.priority
            /\ u.done = IF "done" \in last'.fields.keys THEN last'.fields.done ELSE t.done
            /\ <<u.tag, u.due, u.created_at, u.parent_id>>
                 = <<t.tag, t.due, t.created_at, t.parent_id>>
       /\ last'.tid \notin StoredIds(tasks) => (tasks' = tasks /\ last'.err = NoErr)]_vars

----------------------------------------------------------------------------
(* Date utilities: lines 79-96.  A date is the number yyyymmdd, which orders *)
(* dates as datetime.date does.                                             *)

NoDate == 0
DateMax == 99991231

DigitChars == <<"0", "1", "2", "3", "4", "5", "6", "7", "8", "9">>

IsDigit(c) == \E n \in 1..10 : DigitChars[n] = c

DigitVal(c) == (CHOOSE n \in 1..10 : DigitChars[n] = c) - 1

AllDigits(s) == \A i \in 1..Len(s) : IsDigit(s[i])

RECURSIVE Num(_)
Num(s) == IF s = <<>> THEN 0 ELSE 10 * Num(SubSeq(s, 1, Len(s) - 1)) + DigitVal(s[Len(s)])

IsLeap(y) == (y % 4 = 0 /\ y % 100 # 0) \/ y % 400 = 0

DaysInMonth(y, m) ==
  IF m = 2 THEN (IF IsLeap(y) THEN 29 ELSE 28)
  ELSE IF m \in {4, 6, 9, 11} THEN 30 ELSE 31

\* date(y, m, d), or NoDate where the constructor raises ValueError
MakeDate(y, m, d) ==
  IF y >= 1 /\ m \in 1..12 /\ d >= 1 /\ d <= DaysInMonth(y, m)
  THEN y * 10000 + m * 100 + d ELSE NoDate

\* the date fields "YYYY-MM-DD" at the head of s
IsoDatePart(s) ==
  IF /\ Len(s) >= 10
     /\ AllDigits(SubSeq(s, 1, 4)) /\ s[5] = "-"
     /\ AllDigits(SubSeq(s, 6, 7)) /\ s[8] = "-"
     /\ AllDigits(SubSeq(s, 9, 10))
  THEN MakeDate(Num(SubSeq(s, 1, 4)), Num(SubSeq(s, 6, 7)), Num(SubSeq(s, 9, 10)))
  ELSE NoDate

\* the time part fromisoformat accepts after the separator: HH, HH:MM or HH:MM:SS
IsoTimeOk(s) ==
  /\ Len(s) \in {2, 5, 8}
  /\ AllDigits(SubSeq(s, 1, 2)) /\ Num(SubSeq(s, 1, 2)) <= 23
  /\ Len(s) >= 5 => (s[3] = ":" /\ AllDigits(SubSeq(s, 4, 5)) /\ Num(SubSeq(s, 4, 5)) <= 59)
  /\ Len(s) >= 8 => (s[6] = ":" /\ AllDigits(SubSeq(s, 7, 8)) /\ Num(SubSeq(s, 7, 8)) <= 59)

\* datetime.fromisoformat(d).date(): a date, or a date, one separator character
\* and a time (fractions of a second and UTC offsets are left out of the inputs)
FromIsoFormat(s) ==
  IF Len(s) = 10 THEN IsoDatePart(s)
  ELSE IF Len(s) > 11 /\ IsoTimeOk(SubSeq(s, 12, Len(s))) THEN IsoDatePart(s)
  ELSE NoDate

\* the index of the first "-" of s at or after i, or 0
RECURSIVE DashFrom(_, _)
DashFrom(s, i) == IF i > Len(s) THEN 0 ELSE IF s[i] = "-" THEN i ELSE DashFrom(s, i + 1)

\* datetime.strptime(d, "%Y-%m-%d").date(): four digits of year, one or two of
\* month and of day
StrptimeFields(y, m, d) ==
  IF /\ Len(y) = 4 /\ Len(m) \in {1, 2} /\ Len(d) \in {1, 2}
     /\ AllDigits(y) /\ AllDigits(m) /\ AllDigits(d)
  THEN MakeDate(Num(y), Num(m), Num(d)) ELSE NoDate

\* with the two "-" of s at i and j
StrptimeAt(s, i, j) ==
  IF j = 0 THEN NoDate
  ELSE StrptimeFields(SubSeq(s, 1, i - 1), SubSeq(s, i + 1, j - 1), SubSeq(s, j + 1, Len(s)))

StrptimeFrom(s, i) == IF i = 0 THEN NoDate ELSE StrptimeAt(s, i, DashFrom(s, i + 1))

Strptime(s) == StrptimeFrom(s, DashFrom(s, 1))

\* the except branch of parse_date_iso: strptime is tried when fromisoformat raised
IsoElseStrptime(d, iso) == IF iso # NoDate THEN iso ELSE Strptime(d)

\* parse_date_iso
parse_date_iso(d) ==
  IF ~Truthy(d) THEN NoDate ELSE IsoElseStrptime(d, FromIsoFormat(d))

\* d and d < date.today()
IsBefore(d, today) == d # NoDate /\ d < today


\* is_overdue, with date.today() = today
is_overdue(diso, today) == IsBefore(parse_date_iso(diso), today)

----------------------------------------------------------------------------
(* The page: lines 153-236.  Lists of tasks are sequences of rows.          *)

All == <<"A", "l", "l">>

\* list_tasks(): every row, ORDER BY created_at DESC; SQLite fixes no order
\* among rows with equal created_at, so each such order is a possible result
Listings(T) ==
  {l \in [1..Cardinality(T) -> T] :
     /\ \A i, j \in 1..Cardinality(T) : i # j => l[i] # l[j]
     /\ \A i, j \in 1..Cardinality(T) : i < j => l[i].created_at >= l[j].created_at}

\* line 155: the tags the "Filter by tag" box offers, besides "All"
TagOptions(T) == {Strip(OrEmpty(t.tag)) : t \in {u \in T : Strip(OrEmpty(u.tag)) # <<>>}}

\* lines 162-164
SearchFilter(ts, q) ==
  IF Truthy(q)
  THEN SelectSeq(ts, LAMBDA t : \/ Contains(Strip(Lower(q)), Lower(OrEmpty(t.title)))
                                \/ Contains(Strip(Lower(q)), Lower(OrEmpty(t.tag))))
  ELSE ts

\* lines 166-167
TagFilter(ts, tag_filter) ==
  IF tag_filter # All
  THEN SelectSeq(ts, LAMBDA t : Strip(OrEmpty(t.tag)) = tag_filter)
  ELSE ts

\* lines 169-172
ViewFilter(ts, view_choice) ==
  IF view_choice = "top" THEN SelectSeq(ts, LAMBDA t : ~Truthy(t.parent_id))
  ELSE IF view_choice = "sub" THEN SelectSeq(ts, LAMBDA t : Truthy(t.parent_id))
  ELSE ts

\* sorted(): pairs <<key, item>> are inserted one by one, each after the pairs
\* whose key is not greater, so that items with equal keys keep their order
InsertAt(sorted, p, n) == SubSeq(sorted, 1, n) \o <<p>> \o SubSeq(sorted, n + 1, Len(sorted))

InsertPair(sorted, p) ==
  InsertAt(sorted, p, Cardinality({i \in 1..Len(sorted) : sorted[i][1] <= p[1]}))

RECURSIVE SortPairs(_)
SortPairs(ps) ==
  IF ps = <<>> THEN <<>>
  ELSE InsertPair(SortPairs(SubSeq(ps, 1, Len(ps) - 1)), ps[Len(ps)])

Items(ps) == [i \in 1..Len(ps) |-> ps[i][2]]

\* sorted(ts, key=...), keys[i] being the key of ts[i]
SortedBy(ts, keys) == Items(SortPairs([i \in 1..Len(ts) |-> <<keys[i], ts[i]>>]))

\* (d or default)
DateOr(d, default) == IF d # NoDate THEN d ELSE default

due_sort_key_min(t) == DateOr(parse_date_iso(OrEmpty(t.due)), NoDate)

\* lines 175-177: (d or date.max)
due_sort_key(t) == DateOr(parse_date_iso(OrEmpty(t.due)), DateMax)

\* lines 180-181: order.get(priority, 1)
priority_key(t) ==
  IF t.priority = P_high THEN 0 ELSE IF t.priority = P_low THEN 2 ELSE 1

\* line 183: reverse=True keeps the order of items with equal keys
created_key(t) == 0 - t.created_at

\* lines 174-183
SortTasks(ts, sort_choice) ==
  IF sort_choice = "due"
    THEN SortedBy(ts, [i \in 1..Len(ts) |-> due_sort_key(ts[i])])
  ELSE IF sort_choice = "priority"
    THEN SortedBy(ts, [i \in 1..Len(ts) |-> priority_key(ts[i])])
  ELSE SortedBy(ts, [i \in 1..Len(ts) |-> created_key(ts[i])])

StatsRowsShown(listing, shown) == shown

\* lines 185-187: the rows the stats count, each a fresh list_tasks()
StatsRows(listing, shown) == listing

\* lines 185-187
Stats(rows, today) ==
  [total |-> Len(rows),
   done_cnt |-> Len(SelectSeq(rows, LAMBDA t : t.done # 0)),
   overdue_cnt |-> Len(SelectSeq(rows, LAMBDA t : is_overdue(t.due, today)))]

\* line 190
top_tasks(ts) == SelectSeq(ts, LAMBDA t : ~Truthy(t.parent_id))

SubtasksAmongAll(listing, ts, t) == SelectSeq(listing, LAMBDA u : u.parent_id = t.id)

\* line 232: the subtasks of card t, looked up in the filtered and sorted list
Subtasks(listing, ts, t) == SelectSeq(ts, LAMBDA u : u.parent_id = t.id)

\* lines 226-236: the cards drawn, top to bottom
RECURSIVE Cards(_, _, _)
Cards(tops, listing, ts) ==
  IF tops = <<>> THEN <<>>
  ELSE <<Head(tops)>> \o Subtasks(listing, ts, Head(tops)) \o Cards(Tail(tops), listing, ts)

\* the ids of a list of rows
IdsOf(ts) == [i \in 1..Len(ts) |-> ts[i].id]

\* one run of the script over the stored rows with the widgets as they are set
\* (Streamlit runs it when the session opens and again only on an interaction);
\* view keeps each list as the ids of its rows
Render(today) ==
  /\ ~view.shown
  /\ \E listing \in Listings(tasks) :
     \E filtered \in {ViewFilter(TagFilter(SearchFilter(listing, widgets.q),
                                           widgets.tag_filter), widgets.view_choice)} :
     \E ts \in {SortTasks(filtered, widgets.sort_choice)} :
          view' = [shown |-> TRUE, today |-> today, listing |-> IdsOf(listing),
                   filtered |-> IdsOf(filtered), tasks |-> IdsOf(ts),
                   stats |-> Stats(StatsRows(listing, ts), today),
                   cards |-> IdsOf(Cards(top_tasks(ts), listing, ts))]
  /\ last' = Call("render")
  /\ UNCHANGED <<tasks, clock, issued, df_export, csv, widgets>>

----------------------------------------------------------------------------
(* The page over tables drawn from a set of rows, under every combination   *)
(* of the four widgets.                                                     *)

D_jan2_10h == <<"2", "0", "2", "5", "-", "0", "1", "-", "0", "2", "T", "1", "0", ":", "0", "0">>
D_max == <<"9", "9", "9", "9", "-", "1", "2", "-", "3", "1">>
D_nan == <<"n", "a", "n">>
Q_MI == <<"M", "I">>

Todays == {20250102}

ViewRow(title, tag, due, priority, done) ==
  [title |-> title, tag |-> tag, due |-> due, priority |-> priority, done |-> done]

\* the clock reading at which the row of id i was made: the ids were drawn two
\* to a reading, in some order
MadeAt(i) == ((CHOOSE k \in 1..Len(IdChars) : <<IdChars[k]>> = i) - 1) \div 2

Queries == {<<>>, Q_MI}
SortChoices == {"created", "due", "priority"}
ViewChoices == {"all", "top", "sub"}

\* a table of up to MaxTasks rows, each with an id of its own, its title, tag,
\* due, priority and done from Rows and its parent_id from Parents, and the
\* widgets set in any way the page allows
InitPage(Rows, Parents) ==
  /\ \E I \in SUBSET Ids :
       /\ Cardinality(I) <= MaxTasks
       /\ \E f \in [I -> Rows], g \in [I -> Parents] :
            tasks = {[id |-> i, title |-> f[i].title, tag |-> f[i].tag, due |-> f[i].due,
                      priority |-> f[i].priority, done |-> f[i].done,
                      created_at |-> MadeAt(i), parent_id |-> g[i]] : i \in I}
  /\ clock = IF tasks = {} THEN 0
             ELSE CHOOSE c \in {t.created_at : t \in tasks} : \A t \in tasks : t.created_at <= c
  /\ issued = StoredIds(tasks)
  /\ last = Call("init_db")
  /\ df_export = <<>>
  /\ csv = <<>>
  /\ \E q \in Queries, tag_filter \in {All} \cup TagOptions(tasks),
        sort_choice \in SortChoices, view_choice \in ViewChoices :
       widgets = [q |-> q, tag_filter |-> tag_filter, sort_choice |-> sort_choice,
                  view_choice |-> view_choice]
  /\ view = NoView

NextView == \E today \in Todays : Render(today)

\* SpecSort: top-level rows that differ in due (a date, a date and time, the last
\* day, a text that is no date, nothing) and in title, tag, priority, created_at
SortRows ==
  {ViewRow(T_milk, G_x, D_jan1, P_high, 1),
   ViewRow(T_b, <<>>, <<>>, P_normal, 0),
   ViewRow(T_milk, <<>>, D_max, P_low, 0),
   ViewRow(T_b, G_x, D_nan, P_normal, 1),
   ViewRow(T_b, G_x, D_jan2_10h, P_low, 0)}

SpecSort == InitPage(SortRows, {NULL}) /\ [][NextView]_vars

\* SpecStats: rows that are done and overdue, done with a due that is no date,
\* and due today; top-level or subtasks of the first id
StatRows ==
  {ViewRow(T_milk, G_x, D_jan1, P_high, 1),
   ViewRow(T_b, G_x, D_nan, P_normal, 1),
   ViewRow(T_b, <<>>, D_jan2_10h, P_low, 0)}

SpecStats == InitPage(StatRows, {NULL, <<IdChars[1]>>}) /\ [][NextView]_vars

\* SpecCards: rows that are top-level or name the first or the second id as their
\* parent, stored or not
CardRows ==
  {ViewRow(T_milk, G_x, D_jan1, P_high, 1),
   ViewRow(T_b, <<>>, <<>>, P_normal, 0)}

SpecCards == InitPage(CardRows, {NULL, <<IdChars[1]>>, <<IdChars[2]>>}) /\ [][NextView]_vars

----------------------------------------------------------------------------
(* CSV export and import: lines 131-149.  A file is a sequence of lines, a  *)
(* line a sequence of cells, a cell a text; the first line is the header.   *)

Columns == <<"id", "title", "tag", "due", "priority", "done", "created_at", "parent_id">>

RECURSIVE IntText(_)
IntText(n) == IF n < 10 THEN <<DigitChars[n + 1]>> ELSE IntText(n \div 10) \o <<DigitChars[(n % 10) + 1]>>

\* to_csv of one value: None is written as nothing, a str as it is (no text
\* of the inputs needs quoting), an int in digits
CellOfText(v) == IF v = NULL THEN <<>> ELSE v

LineOfRow(t) ==
  <<CellOfText(t.id), CellOfText(t.title), CellOfText(t.tag), CellOfText(t.due),
    CellOfText(t.priority), IntText(t.done), IntText(t.created_at), CellOfText(t.parent_id)>>

\* pd.DataFrame(rows).to_csv(index=False): the header and a line per row; a frame
\* of no rows has no columns, and its file is empty
ToCsv(df) ==
  IF df = <<>> THEN <<>>
  ELSE <<Columns>> \o [i \in 1..Len(df) |-> LineOfRow(df[i])]

\* the cells pd.read_csv reads as missing (of its default na_values, those that
\* are texts of the inputs)
NaValues == {<<>>, <<"n", "a", "n">>, <<"N", "A">>}


\* pd.read_csv of one cell of a column of texts
ReadCell(c) == IF c \in NaValues THEN NaN ELSE c

\* row.get(col, default) on a line read under header
Get(header, line, col, default) ==
  IF \E k \in 1..Len(header) : header[k] = col
  THEN ReadCell(line[CHOOSE k \in 1..Len(header) : header[k] = col])
  ELSE default

\* (x or None)
OrNone(x) == IF x # <<>> THEN x ELSE NULL

\* line 140: the arguments add_task gets for one line
ImportedRow(header, line, tid, now) ==
  NewRow(tid,
         Strip(Str(Get(header, line, "title", <<>>))),
         Strip(Str(Get(header, line, "tag", <<>>))),
         Strip(Str(Get(header, line, "due", <<>>))),
         Strip(Str(Get(header, line, "priority", P_normal))),
         now,
         OrNone(Strip(Str(Get(header, line, "parent_id", NULL)))))

\* lines 136-141: the loop over the lines from line k on, with ids[k] the id
\* add_task draws for line k; an exception of add_task ends the loop
RECURSIVE ImportLines(_, _, _, _, _, _)
ImportLines(T, header, lines, ids, now, k) ==
  IF k > Len(lines) THEN [tasks |-> T, err |-> NoErr, new |-> {}]
  ELSE IF Strip(Str(Get(header, lines[k], "title", <<>>))) = <<>>
       THEN ImportLines(T, header, lines, ids, now, k + 1)
  ELSE LET row == ImportedRow(header, lines[k], ids[k], now) IN
       IF InsertErr(T, row) # NoErr
       THEN [tasks |-> T, err |-> InsertErr(T, row), new |-> {}]
       ELSE LET rest == ImportLines(InsertRow(T, row), header, lines, ids, now, k + 1)
            IN [rest EXCEPT !.new = @ \cup {row.id}]

\* lines 147-149: the export button's file of the rows list_tasks() gives
ExportCsv ==
  /\ \E listing \in Listings(tasks) :
       /\ df_export' = listing
       /\ csv' = ToCsv(listing)
  /\ last' = Call("export")
  /\ UNCHANGED <<tasks, clock, issued, widgets, view>>

\* the app is started on a new quicklist.db: init_db creates the empty table
FreshStore ==
  /\ tasks # {}
  /\ tasks' = {}
  /\ issued' = {}
  /\ last' = Call("init_db")
  /\ UNCHANGED <<clock, df_export, csv, widgets, view>>

\* lines 132-145: the exported file is uploaded; pd.read_csv raises
\* EmptyDataError on a file without a header line
ImportCsv ==
  /\ IF csv = <<>>
     THEN /\ last' = [Call("import") EXCEPT !.err = "EmptyDataError"]
          /\ UNCHANGED <<tasks, issued>>
     ELSE \E ids \in [1..(Len(csv) - 1) -> Ids] :
          \E got \in {ImportLines(tasks, csv[1], Tail(csv), ids, clock, 1)} :
            /\ tasks' = got.tasks
            /\ issued' = issued \cup got.new
            /\ last' = [Call("import") EXCEPT !.err = got.err]
  /\ UNCHANGED <<clock, df_export, csv, widgets, view>>

\* SpecCsv: a table drawn from CsvRows is exported, the file is imported into
\* the table or into a fresh one, and so on, while time passes
T_na == <<"N", "A">>

CsvRows ==
  {ViewRow(T_milk, G_x, D_jan1, P_high, 1),
   ViewRow(T_b, <<>>, <<>>, P_normal, 0),
   ViewRow(T_na, G_x, D_jan1, P_low, 0)}

InitCsv ==
  /\ InitPage(CsvRows, {NULL})
  /\ widgets = DefaultWidgets

NextCsv == ExportCsv \/ FreshStore \/ ImportCsv \/ Tick

SpecCsv == InitCsv /\ [][NextCsv]_vars

\* the (title, tag, due, priority) of the rows of a table or list
Tuples(T) == {<<t.title, t.tag, t.due, t.priority>> : t \in T}

\* C7: the export of any table, imported into a fresh empty table, gives the same
\* set of (title, tag, due, priority), also for tasks with an empty tag or due.
C7_CsvRoundTrip ==
  [][(last'.op = "import" /\ last'.err = NoErr /\ tasks = {} /\ last' # last)
       => Tuples(tasks') = Tuples({df_export[i] : i \in 1..Len(df_export)})]_vars

----------------------------------------------------------------------------
(* Claims about the page *)

RowOf(id) == CHOOSE t \in tasks : t.id = id
Parsed(id) == parse_date_iso(OrEmpty(RowOf(id).due))
Range(seq) == {seq[i] : i \in 1..Len(seq)}
Pos(seq, x) == CHOOSE i \in 1..Len(seq) : seq[i] = x
IsPermutation(a, b) ==
  /\ Len(a) = Len(b)
  /\ Range(a) = Range(b)
  /\ \A i, j \in 1..Len(a) : i # j => a[i] # a[j]

\* C8 as stated: sorted by due, the list is a permutation of the filtered list in
\* ascending order of the parsed dates, every task without a parseable due date
\* comes after every task with one, and tasks with equal dates, and the undated
\* ones, keep the order they had in the filtered list.
C8_DueAscUndatedAfterEveryDated ==
  (view.shown /\ widgets.sort_choice = "due") =>
    LET out == view.tasks
        N == 1..Len(view.tasks)
    IN /\ IsPermutation(out, view.filtered)
       /\ \A i, j \in N : (i < j /\ Parsed(out[i]) # NoDate /\ Parsed(out[j]) # NoDate)
            => Parsed(out[i]) <= Parsed(out[j])
       /\ \A i, j \in N : (Parsed(out[i]) = NoDate /\ Parsed(out[j]) # NoDate) => j < i
       /\ \A i, j \in N : (i < j /\ Parsed(out[i]) = Parsed(out[j]))
            => Pos(view.filtered, out[i]) < Pos(view.filtered, out[j])

\* the date an undated task sorts as: the last day there is
DueRank(id) == IF Parsed(id) = NoDate THEN 99991231 ELSE Parsed(id)

\* C8 amended: sorted by due, the list is a permutation of the filtered list in
\* ascending order of the due dates with an undated task counting as 9999-12-31;
\* so an undated task comes after every task due before 9999-12-31, and tasks of
\* equal rank (the undated ones and those due on 9999-12-31) keep the order they
\* had in the filtered list.
C8_DueAscUndatedAsLastDay ==
  (view.shown /\ widgets.sort_choice = "due") =>
    LET out == view.tasks
        N == 1..Len(view.tasks)
    IN /\ IsPermutation(out, view.filtered)
       /\ \A i, j \in N : i < j => DueRank(out[i]) <= DueRank(out[j])
       /\ \A i, j \in N : (Parsed(out[i]) = NoDate /\ Parsed(out[j]) # NoDate
                            /\ Parsed(out[j]) < 99991231) => j < i
       /\ \A i, j \in N : (i < j /\ DueRank(out[i]) = DueRank(out[j]))
            => Pos(view.filtered, out[i]) < Pos(view.filtered, out[j])

\* sorted by due, three tasks were reordered: a dated one first, then an undated
\* one ahead of one due on 9999-12-31
C8_Witness ==
  /\ view.shown /\ widgets.sort_choice = "due"
  /\ Len(view.tasks) = 3
  /\ view.tasks # view.filtered
  /\ Parsed(view.tasks[1]) = 20250101
  /\ Parsed(view.tasks[2]) = NoDate
  /\ Parsed(view.tasks[3]) = 99991231

\* C9: the stats count all stored tasks whatever the widgets say: total is the
\* number of stored tasks, done the number with done set, overdue the number
\* whose due parses to a date before today, done or not.
C9_StatsOverAllTasks ==
  view.shown =>
    /\ view.stats.total = Cardinality(tasks)
    /\ view.stats.done_cnt = Cardinality({t \in tasks : t.done = 1})
    /\ view.stats.overdue_cnt =
         Cardinality({t \in tasks : Parsed(t.id) # NoDate /\ Parsed(t.id) < view.today})

\* the filters hide tasks, and the stats count a done overdue task but neither
\* the task due today nor the one whose due does not parse
C9_Witness ==
  /\ view.shown
  /\ Len(view.tasks) < Cardinality(tasks)
  /\ view.stats = [total |-> 3, done_cnt |-> 2, overdue_cnt |-> 1]
  /\ \E t \in tasks : t.done = 1 /\ Parsed(t.id) = 20250101
  /\ \E t \in tasks : Parsed(t.id) = view.today
  /\ \E t \in tasks : t.due = D_nan

IsTop(id) == ~Truthy(RowOf(id).parent_id)

\* C10: the cards are the top-level tasks of the filtered and sorted list in its
\* order, each followed by the tasks of that list whose parent_id is its id; no
\* task has two cards, and a subtask whose parent is not a top-level task of the
\* list has none.
C10_CardsAreTopLevelThenSubtasks ==
  view.shown =>
    LET ts == view.tasks
        cards == view.cards
        K == 1..Len(view.cards)
    IN /\ \A i, j \in K : i # j => cards[i] # cards[j]
       /\ Range(cards) =
            {id \in Range(ts) :
               \/ IsTop(id)
               \/ \E p \in Range(ts) : IsTop(p) /\ RowOf(id).parent_id = p}
       /\ \A i, j \in K : (i < j /\ IsTop(cards[i]) /\ IsTop(cards[j]))
            => Pos(ts, cards[i]) < Pos(ts, cards[j])
       /\ \A j \in K : ~IsTop(cards[j]) =>
            \E i \in 1..(j - 1) :
               /\ cards[i] = RowOf(cards[j]).parent_id
               /\ \A k \in (i + 1)..j : ~IsTop(cards[k])
               /\ \A k \in (i + 1)..(j - 1) : Pos(ts, cards[k]) < Pos(ts, cards[j])
       /\ widgets.view_choice = "sub" => cards = <<>>

\* with no filter set, a top-level task and its subtask have a card and the
\* subtask's own subtask has none
C10_Witness ==
  /\ view.shown /\ widgets.view_choice = "all" /\ widgets.q = <<>>
  /\ widgets.tag_filter = All
  /\ Len(view.tasks) = 3
  /\ Len(view.cards) = 2
  /\ IsTop(view.cards[1])
  /\ RowOf(view.cards[2]).parent_id = view.cards[1]
  /\ \E id \in Range(view.tasks) : RowOf(id).parent_id = view.cards[2]

====
